---- MODULE Spec2Model ----
(***************************************************************************)
(* The browser-driven capture scripts of jordicore/mcpbackend as one state *)
(* machine.  The repository holds several near-duplicate scripts; each is  *)
(* a "variant" here, chosen in Init and run once:                          *)
(*   main    src/scraper.js 38-184        main IIFE (try/catch, exit 1)    *)
(*   run     src/unnamed/part_004 12-123  runScraper (try/catch/finally)   *)
(*   cookie  src/scraper.js 194-302       deepCapture, cookie transfer     *)
(*   cdp     src/unnamed/part_001 9-106   deepCapture, CDP request+response*)
(*   kw      src/unnamed/part_003 10-148  deepCapture, dashboard keywords  *)
(*   target  src/scraper.js 312-415       deepCapture, targeted iframe     *)
(*   iframe  src/unnamed/part_000 102-200 deepCapture, one page per iframe *)
(* pc is the position of the script's async function.  Every bounded wait  *)
(* and navigation either completes or times out (throws); the artifact     *)
(* write either succeeds or throws; launch, newPage and close complete;    *)
(* type completes unless its text is an absent configuration key.  Network *)
(* events arrive at any moment a listener is attached.                     *)
(***************************************************************************)
EXTENDS Integers, Sequences, FiniteSets, TLC

VARIABLES
  variant,      \* which script runs
  pc,           \* position of the script's async function
  browser,      \* "none" | "open" | "closed"
  closeCalls,   \* number of browser.close() invocations
  attempts,     \* number of times the login flow was started
  failures,     \* number of login attempts that failed
  loginState,   \* LoginState of the attempt in progress
  entered,      \* credential fields typed so far in this attempt
  submitClicks, \* clicks issued on the final submit control
  confirmed,    \* a navigation / dashboard wait returned successfully
  discovery,    \* "none" | "found" | "exhausted"
  pollAttempts, \* evaluate() calls made by the targeted polling loop
  pollDelays,   \* 3 s sleeps made by the targeted polling loop
  iframeUrl,    \* result of the targeted polling loop ("null" or a url)
  listeners,    \* listeners attached so far
  observed,     \* events delivered to a listener, in arrival order
  pending,      \* response handlers suspended at await res.text()
  captured,     \* the capture buffer
  writes,       \* successful artifact writes
  artifact,     \* content of the output file
  exitCode,     \* "running" | "exit0" | "exit1": status of the node process
  buttons,      \* rendered buttons of the submit-control search
  clickLog,     \* indexes of the buttons clicked by the search
  env,          \* required configuration keys present in process.env
  notice,       \* message logged by the persistence step, with the buffer size
  elapsed,      \* ticks of the monitoring timer that have passed
  mode,         \* "headless" | "headful": mode of the current launch
  cycles,       \* wait cycles completed by the cyclic policy in this launch
  relaunches,   \* escalations (relaunches) performed
  iframeUrls,   \* srcs returned by the iframe scan of the per-iframe script
  frameIdx,     \* index of the iframe the per-iframe loop is at
  framePages    \* state of each iframe page: "open" | "closed"

vars == <<variant, pc, browser, closeCalls, attempts, failures, loginState,
          entered, submitClicks, confirmed, discovery, pollAttempts,
          pollDelays, iframeUrl, listeners, observed, pending, captured,
          writes, artifact, exitCode, buttons, clickLog, env, notice, elapsed,
          mode, cycles, relaunches, iframeUrls, frameIdx, framePages>>

loginVars  == <<attempts, failures, loginState, entered, submitClicks, confirmed>>
pollVars   == <<discovery, pollAttempts, pollDelays, iframeUrl>>
netVars    == <<listeners, observed, pending, captured>>
fileVars   == <<writes, artifact, notice>>
searchVars == <<buttons, clickLog>>
timeVars   == <<elapsed>>
policyVars == <<mode, cycles, relaunches>>
frameVars  == <<iframeUrls, frameIdx, framePages>>

-----------------------------------------------------------------------------
(* Bounds of the model *)

MaxEvents  == 2     \* network events delivered to listeners in one run
MaxButtons == 2     \* buttons rendered on the login page
WindowTicks == 2    \* length of the monitoring window, in timer ticks

-----------------------------------------------------------------------------
(* Strings as sequences, so that includes(), trim() and toLowerCase() are    *)
(* computed and not assumed.                                                 *)

Includes(s, p) ==
  \E i \in 0..(Len(s) - Len(p)) : \A j \in 1..Len(p) : s[i + j] = p[j]

EndsWith(s, p) ==
  /\ Len(p) <= Len(s)
  /\ \A j \in 1..Len(p) : s[Len(s) - Len(p) + j] = p[j]

LowerChar(c) ==
  CASE c = "C" -> "c" [] c = "I" -> "i" [] c = "L" -> "l"
    [] c = "N" -> "n" [] c = "O" -> "o" [] c = "G" -> "g"
    [] c = "S" -> "s" [] OTHER -> c

ToLowerCase(s) == [i \in 1..Len(s) |-> LowerChar(s[i])]

RECURSIVE TrimLeft(_)
TrimLeft(s) == IF s # <<>> /\ Head(s) = " " THEN TrimLeft(Tail(s)) ELSE s

RECURSIVE TrimRight(_)
TrimRight(s) ==
  IF s # <<>> /\ s[Len(s)] = " " THEN TrimRight(SubSeq(s, 1, Len(s) - 1)) ELSE s

Trim(s) == TrimRight(TrimLeft(s))

-----------------------------------------------------------------------------
(* The submit-control search of the main IIFE *)

LabelLogIn    == <<"L","o","g"," ","I","n">>
LabelLogin    == <<"L","O","G","I","N">>
LabelContinue == <<" ","C","o","n","t","i","n","u","e">>
LabelSignIn   == <<"S","i","g","n"," ","i","n">>
LabelCancel   == <<"C","a","n","c","e","l">>

Labels == {LabelLogIn, LabelLogin, LabelContinue, LabelSignIn, LabelCancel}

Buttons == [label : Labels, type : {"submit", "button"}]

ButtonLists == UNION {[1..n -> Buttons] : n \in 0..MaxButtons}

\* el.innerText?.trim().toLowerCase() || ''
InnerLabel(btn) == ToLowerCase(Trim(btn.label))

LabelMatches(label) ==
  \/ Includes(label, <<"c","o","n","t","i","n","u","e">>)
  \/ Includes(label, <<"l","o","g","i","n">>)
  \/ Includes(label, <<"s","i","g","n"," ","i","n">>)

\* for (const btn of buttons) { if (label matches) { click; break } }
RECURSIVE LabelSearch(_, _)
LabelSearch(bs, i) ==
  IF i > Len(bs) THEN 0
  ELSE IF LabelMatches(InnerLabel(bs[i])) THEN i
  ELSE LabelSearch(bs, i + 1)

\* page.$("button[type='submit']"): the first submit-type button, or none
SubmitTypeSearch(bs) ==
  IF \E i \in 1..Len(bs) : bs[i].type = "submit"
  THEN CHOOSE i \in 1..Len(bs) :
         /\ bs[i].type = "submit"
         /\ \A j \in 1..(i - 1) : bs[j].type # "submit"
  ELSE 0

\* The whole search: the sequence of clicks issued (empty: the step throws)
SubmitControlClicks(bs) ==
  LET byLabel == LabelSearch(bs, 1) IN
  IF byLabel # 0 THEN <<byLabel>>
  ELSE LET bySubmit == SubmitTypeSearch(bs) IN
       IF bySubmit # 0 THEN <<bySubmit>> ELSE <<>>

-----------------------------------------------------------------------------
(* Urls as sequences of atoms; the filters are substring tests on them *)

UrlNames == {"dedicated", "query", "powerbi", "portal"}

UrlOf(u) ==
  CASE u = "dedicated" ->
         <<"https://", "wabi.", "pbidedicated.windows.net", "/", "webapi", "/", "query">>
    [] u = "query" ->
         <<"https://", "wabi.", "analysis.windows.net", "/", "QueryExecutionService",
           "/", "automatic", "/", "public", "/", "query">>
    [] u = "powerbi" ->
         <<"https://", "app.", "powerbi.com", "/", "reportEmbed">>
    [] OTHER ->
         <<"https://", "portal.", "autocab365.com", "/", "api", "/", "login">>

PatDedicated == <<"pbidedicated.windows.net">>
PatQueryPath == <<"/", "QueryExecutionService", "/", "automatic", "/", "public", "/", "query">>

\* main IIFE: url.includes(dedicated) || url.includes(query-execution path)
MainFilter(u) ==
  \/ Includes(UrlOf(u), PatDedicated)
  \/ Includes(UrlOf(u), PatQueryPath)

-----------------------------------------------------------------------------
(* Bodies and serialization *)

\* what the login form posts: the value of every configuration key
CredentialValues == {"val(COMPANY_ID)", "val(USERNAME)", "val(PASSWORD)"}

\* req.postData() of a request: the login request to the portal carries the
\* credential values, a Power BI request its query payload
BodyOf(u) ==
  IF Includes(UrlOf(u), <<"portal.", "autocab365.com">>)
  THEN <<"companyId=", "val(COMPANY_ID)", "&username=", "val(USERNAME)",
         "&password=", "val(PASSWORD)">>
  ELSE <<"{queries}">>

\* one element of the array: the url and the body of the record
SerializeEvent(e) ==
  <<"{", "url:">> \o UrlOf(e.url) \o <<",", "body:">> \o BodyOf(e.url) \o <<"}">>

\* JSON.stringify(buffer, null, 2): the elements in array order, comma-separated
RECURSIVE SerializeItems(_)
SerializeItems(buf) ==
  IF buf = <<>> THEN <<>>
  ELSE IF Len(buf) = 1 THEN SerializeEvent(buf[1])
  ELSE SerializeEvent(buf[1]) \o <<",">> \o SerializeItems(Tail(buf))

Serialize(buf) == <<"[">> \o SerializeItems(buf) \o <<"]">>

\* (mutation) the file is opened for appending
WriteFile_Appends(old, data) == old \o data

\* fs.writeFile(path, data): the file's content becomes data
WriteFile(old, data) == data

-----------------------------------------------------------------------------
(* Exceptions *)

LoginStates == {"Start", "EntityEntered", "CredentialsEntered", "Submitted",
                "NavigationConfirmed", "DashboardConfirmed", "Failed"}

\* where an exception thrown by the script's body lands
OnThrow ==
  CASE variant = "main" -> "catch"
    [] variant = "run"  -> "catch"
    [] OTHER            -> "rejected"

\* a login step times out or misses its element
LoginFail ==
  /\ loginState' = "Failed"
  /\ failures' = failures + 1
  /\ pc' = OnThrow
  /\ UNCHANGED <<attempts, entered, submitClicks, confirmed>>

-----------------------------------------------------------------------------
(* main IIFE, src/scraper.js 38-184 *)

ConfigKeys == {"COMPANY_ID", "USERNAME", "PASSWORD"}

\* if (!AUTOCAB_USER || !AUTOCAB_PASS || !COMPANY_ID) { console.error; exit(1) }
MainConfigInvalid ==
  /\ variant = "main" /\ pc = "launch"
  /\ env # ConfigKeys
  /\ notice' = [msg |-> "config", count |-> 0]
  /\ exitCode' = "exit1"
  /\ pc' = "invalid"
  /\ UNCHANGED <<variant, env, browser, closeCalls, loginVars, pollVars, netVars,
                 writes, artifact, searchVars, timeVars, policyVars, frameVars>>

MainLaunch ==
  /\ variant = "main" /\ pc = "launch"
  /\ env = ConfigKeys
  /\ browser' = "open"
  /\ pc' = "goto_login"
  /\ UNCHANGED <<variant, env, closeCalls, loginVars, pollVars, netVars, fileVars,
                 exitCode, searchVars, timeVars,
                 policyVars, frameVars>>

MainGotoLogin ==
  /\ variant = "main" /\ pc = "goto_login"
  /\ \/ /\ attempts' = attempts + 1
        /\ loginState' = "Start"
        /\ pc' = "company"
        /\ UNCHANGED <<failures, entered, submitClicks, confirmed>>
     \/ /\ attempts' = attempts + 1
        /\ loginState' = "Failed"
        /\ failures' = failures + 1
        /\ pc' = OnThrow
        /\ UNCHANGED <<entered, submitClicks, confirmed>>
  /\ UNCHANGED <<variant, env, browser, closeCalls, pollVars, netVars, fileVars,
                 exitCode, searchVars, timeVars,
                 policyVars, frameVars>>

MainEnterCompany ==
  /\ variant = "main" /\ pc = "company"
  /\ \/ /\ entered' = entered \cup {"entity"}
        /\ loginState' = "EntityEntered"
        /\ pc' = "username"
        /\ UNCHANGED <<attempts, failures, submitClicks, confirmed>>
     \/ LoginFail
  /\ UNCHANGED <<variant, env, browser, closeCalls, pollVars, netVars, fileVars,
                 exitCode, searchVars, timeVars,
                 policyVars, frameVars>>

\* (mutation) the password step is skipped: the search starts after the username
MainEnterUsername_SkipsPassword ==
  /\ variant = "main" /\ pc = "username"
  /\ \/ /\ entered' = entered \cup {"username"}
        /\ pc' = "submit"
        /\ UNCHANGED <<attempts, failures, loginState, submitClicks, confirmed>>
     \/ LoginFail
  /\ UNCHANGED <<variant, env, browser, closeCalls, pollVars, netVars, fileVars,
                 exitCode, searchVars, timeVars,
                 policyVars, frameVars>>

MainEnterUsername ==
  /\ variant = "main" /\ pc = "username"
  /\ \/ /\ entered' = entered \cup {"username"}
        /\ pc' = "password"
        /\ UNCHANGED <<attempts, failures, loginState, submitClicks, confirmed>>
     \/ LoginFail
  /\ UNCHANGED <<variant, env, browser, closeCalls, pollVars, netVars, fileVars,
                 exitCode, searchVars, timeVars,
                 policyVars, frameVars>>

MainEnterPassword ==
  /\ variant = "main" /\ pc = "password"
  /\ \/ /\ entered' = entered \cup {"password"}
        /\ loginState' = "CredentialsEntered"
        /\ pc' = "submit"
        /\ UNCHANGED <<attempts, failures, submitClicks, confirmed>>
     \/ LoginFail
  /\ UNCHANGED <<variant, env, browser, closeCalls, pollVars, netVars, fileVars,
                 exitCode, searchVars, timeVars,
                 policyVars, frameVars>>

\* the button search on the rendered buttons bs, then the click or the throw
SubmitStep(bs) ==
  /\ variant = "main" /\ pc = "submit"
  /\ LET clicks == SubmitControlClicks(bs) IN
     IF clicks # <<>>
     THEN /\ submitClicks' = submitClicks + Len(clicks)
          /\ loginState' = "Submitted"
          /\ pc' = "confirm"
          /\ UNCHANGED <<attempts, failures, entered, confirmed>>
     ELSE LoginFail
  /\ UNCHANGED <<variant, env, browser, closeCalls, pollVars, netVars, fileVars,
                 exitCode, timeVars, policyVars, frameVars>>

MainClickSubmit ==
  /\ \E bs \in ButtonLists : SubmitStep(bs)
  /\ UNCHANGED searchVars

\* the same step on a page whose buttons are known, keeping the clicks issued
MainSubmitSearch ==
  /\ SubmitStep(buttons)
  /\ clickLog' = SubmitControlClicks(buttons)
  /\ UNCHANGED buttons

MainConfirm ==
  /\ variant = "main" /\ pc = "confirm"
  /\ \/ /\ loginState' = "NavigationConfirmed"
        /\ confirmed' = TRUE
        /\ pc' = "goto_analytics"
        /\ UNCHANGED <<attempts, failures, entered, submitClicks>>
     \/ LoginFail
  /\ UNCHANGED <<variant, env, browser, closeCalls, pollVars, netVars, fileVars,
                 exitCode, searchVars, timeVars,
                 policyVars, frameVars>>

MainGotoAnalytics ==
  /\ variant = "main" /\ pc = "goto_analytics"
  /\ pc' \in {"iframe_wait", OnThrow}
  /\ UNCHANGED <<variant, env, browser, closeCalls, loginVars, pollVars, netVars,
                 fileVars, exitCode, searchVars, timeVars,
                 policyVars, frameVars>>

\* waitForSelector(iframe) inside its own try/catch: a timeout is logged only
MainIframeWait ==
  /\ variant = "main" /\ pc = "iframe_wait"
  /\ discovery' \in {"found", "exhausted"}
  /\ pc' = "attach"
  /\ UNCHANGED <<variant, env, browser, closeCalls, loginVars, pollAttempts,
                 pollDelays, iframeUrl, netVars, fileVars, exitCode, searchVars, timeVars,
                 policyVars, frameVars>>

MainAttach ==
  /\ variant = "main" /\ pc = "attach"
  /\ listeners' = listeners \cup {"main.response"}
  /\ captured' = <<>>
  /\ pc' = "window"
  /\ UNCHANGED <<variant, env, browser, closeCalls, loginVars, pollVars, observed,
                 pending, fileVars, exitCode, searchVars, timeVars,
                 policyVars, frameVars>>

\* page.on('response') up to the await of res.text()
MainOnResponse ==
  /\ "main.response" \in listeners
  /\ browser = "open" /\ pc # "exited"
  /\ Len(observed) < MaxEvents
  /\ \E u \in UrlNames :
       /\ observed' = Append(observed, [lst |-> "main.response", url |-> u])
       /\ pending' = IF MainFilter(u) THEN pending \cup {Len(observed) + 1}
                     ELSE pending
  /\ UNCHANGED <<variant, env, pc, browser, closeCalls, loginVars, pollVars,
                 listeners, captured, fileVars, exitCode, searchVars, timeVars,
                 policyVars, frameVars>>

\* res.text() settles (resolved or rejected) and the handler pushes
MainOnResponseBody ==
  /\ pc # "exited"
  /\ \E n \in pending :
       /\ captured' = Append(captured, [n |-> n, url |-> observed[n].url])
       /\ pending' = pending \ {n}
  /\ UNCHANGED <<variant, env, pc, browser, closeCalls, loginVars, pollVars,
                 listeners, observed, fileVars, exitCode, searchVars, timeVars,
                 policyVars, frameVars>>

\* time passes while the script is suspended at await setTimeout(...)
TimerTick ==
  /\ pc = "window"
  /\ elapsed < WindowTicks
  /\ elapsed' = elapsed + 1
  /\ UNCHANGED <<variant, env, pc, browser, closeCalls, loginVars, pollVars,
                 netVars, fileVars, exitCode, searchVars, policyVars, frameVars>>

\* (mutation) the script waits for a captured event instead of a timer
MainWindow_WaitsForEvent ==
  /\ variant = "main" /\ pc = "window"
  /\ captured # <<>>
  /\ pc' = "persist"
  /\ UNCHANGED <<variant, env, browser, closeCalls, loginVars, pollVars, netVars,
                 fileVars, exitCode, searchVars, timeVars,
                 policyVars, frameVars>>

\* the timer of await new Promise(resolve => setTimeout(resolve, waitMs)) fires
MainWindow ==
  /\ variant = "main" /\ pc = "window"
  /\ elapsed = WindowTicks
  /\ pc' = "persist"
  /\ UNCHANGED <<variant, env, browser, closeCalls, loginVars, pollVars, netVars,
                 fileVars, exitCode, searchVars, timeVars,
                 policyVars, frameVars>>

\* writeFile, then "Captured ${capturedEvents.length} ..." and "Results saved"
MainPersist ==
  /\ variant = "main" /\ pc = "persist"
  /\ \/ /\ artifact' = WriteFile(artifact, Serialize(captured))
        /\ writes' = writes + 1
        /\ notice' = [msg |-> "saved", count |-> Len(captured)]
        /\ pc' = "close"
     \/ /\ pc' = OnThrow
        /\ UNCHANGED fileVars
  /\ UNCHANGED <<variant, env, browser, closeCalls, loginVars, pollVars, netVars,
                 exitCode, searchVars, timeVars,
                 policyVars, frameVars>>

MainClose ==
  /\ variant = "main" /\ pc = "close"
  /\ closeCalls' = closeCalls + 1
  /\ browser' = "closed"
  /\ exitCode' = "exit0"
  /\ pc' = "returned"
  /\ UNCHANGED <<variant, env, loginVars, pollVars, netVars, fileVars,
                 searchVars, timeVars,
                 policyVars, frameVars>>

\* (mutation) the catch block exits without closing the browser
MainCatch_NoClose ==
  /\ variant = "main" /\ pc = "catch"
  /\ exitCode' = "exit1"
  /\ pc' = "exited"
  /\ UNCHANGED <<variant, env, browser, closeCalls, loginVars, pollVars, netVars,
                 fileVars, searchVars, timeVars,
                 policyVars, frameVars>>

MainCatch ==
  /\ variant = "main" /\ pc = "catch"
  /\ closeCalls' = closeCalls + 1
  /\ browser' = "closed"
  /\ exitCode' = "exit1"
  /\ pc' = "exited"
  /\ UNCHANGED <<variant, env, loginVars, pollVars, netVars, fileVars, searchVars, timeVars,
                 policyVars, frameVars>>

-----------------------------------------------------------------------------
(* Synchronous request/response listeners: filter, then push *)

PatPowerBi    == <<"powerbi.com">>
PatQes        == <<"QueryExecutionService">>
PatPublicQry  == <<"/", "public", "/", "query">>
PatSlashQuery == <<"/", "query">>

\* part_004: url.includes("QueryExecutionService") && url.endsWith("/query")
RunFilter(u) ==
  /\ Includes(UrlOf(u), PatQes)
  /\ EndsWith(UrlOf(u), PatSlashQuery)

\* (mutation) the listener stores every request it sees
CdpFilter_All(u) == u \in UrlNames

\* cookie-transfer and CDP variants: dedicated host or powerbi.com
CdpFilter(u) ==
  \/ Includes(UrlOf(u), PatDedicated)
  \/ Includes(UrlOf(u), PatPowerBi)

\* part_003: url.includes("QueryExecutionService") && url.includes("/public/query")
KwFilter(u) ==
  /\ Includes(UrlOf(u), PatQes)
  /\ Includes(UrlOf(u), PatPublicQry)

\* targeted iframe variant: dedicated host only
TargetFilter(u) == Includes(UrlOf(u), PatDedicated)

\* (mutation) the handler rebuilds the buffer from its own listener's events, so
\* an append of the other listener is overwritten
SyncHandler_LostAppend(lst, passes) ==
  /\ lst \in listeners
  /\ browser = "open"
  /\ Len(observed) < MaxEvents
  /\ \E u \in UrlNames :
       /\ observed' = Append(observed, [lst |-> lst, url |-> u])
       /\ captured' = IF passes[u]
                      THEN Append(SelectSeq(captured, LAMBDA e : observed[e.n].lst = lst),
                                  [n |-> Len(observed) + 1, url |-> u])
                      ELSE captured
  /\ UNCHANGED <<variant, env, pc, browser, closeCalls, loginVars, pollVars,
                 listeners, pending, fileVars, exitCode, searchVars, timeVars,
                 policyVars, frameVars>>

\* a listener whose handler pushes before it returns; passes[u] is the value of
\* the handler's url test on u
SyncHandler(lst, passes) ==
  /\ lst \in listeners
  /\ browser = "open"
  /\ Len(observed) < MaxEvents
  /\ \E u \in UrlNames :
       /\ observed' = Append(observed, [lst |-> lst, url |-> u])
       /\ captured' = IF passes[u]
                      THEN Append(captured, [n |-> Len(observed) + 1, url |-> u])
                      ELSE captured
  /\ UNCHANGED <<variant, env, pc, browser, closeCalls, loginVars, pollVars,
                 listeners, pending, fileVars, exitCode, searchVars, timeVars,
                 policyVars, frameVars>>

-----------------------------------------------------------------------------
(* runScraper, src/unnamed/part_004 12-123 *)

RunButtons == [label : Labels, disabled : BOOLEAN]

RunButtonLists == UNION {[1..n -> RunButtons] : n \in 0..MaxButtons}

\* first button with !disabled && /continue/i.test(innerText.trim())
RunContinueFound(bs) ==
  \E i \in 1..Len(bs) :
    /\ ~bs[i].disabled
    /\ Includes(ToLowerCase(Trim(bs[i].label)), <<"c","o","n","t","i","n","u","e">>)

RunLaunch ==
  /\ variant = "run" /\ pc = "launch"
  /\ browser' = "open"
  /\ pc' = "goto_login"
  /\ UNCHANGED <<variant, env, closeCalls, loginVars, pollVars, netVars, fileVars,
                 exitCode, searchVars, timeVars,
                 policyVars, frameVars>>

RunGotoLogin ==
  /\ variant = "run" /\ pc = "goto_login"
  /\ \/ /\ attempts' = attempts + 1
        /\ loginState' = "Start"
        /\ pc' = "company"
        /\ UNCHANGED <<failures, entered, submitClicks, confirmed>>
     \/ /\ attempts' = attempts + 1
        /\ loginState' = "Failed"
        /\ failures' = failures + 1
        /\ pc' = OnThrow
        /\ UNCHANGED <<entered, submitClicks, confirmed>>
  /\ UNCHANGED <<variant, env, browser, closeCalls, pollVars, netVars, fileVars,
                 exitCode, searchVars, timeVars,
                 policyVars, frameVars>>

\* waitForSelector, then page.type(selector, COMPANY_ID): typing an undefined
\* text throws
RunEnterCompany ==
  /\ variant = "run" /\ pc = "company"
  /\ \/ /\ "COMPANY_ID" \in env
        /\ entered' = entered \cup {"entity"}
        /\ loginState' = "EntityEntered"
        /\ pc' = "continue"
        /\ UNCHANGED <<attempts, failures, submitClicks, confirmed>>
     \/ LoginFail
  /\ UNCHANGED <<variant, env, browser, closeCalls, pollVars, netVars, fileVars,
                 exitCode, searchVars, timeVars,
                 policyVars, frameVars>>

\* the Continue loop: Promise.all([waitForNavigation, btn.click]) on the first
\* enabled Continue button; throws when there is none or the navigation times out
RunClickContinue ==
  /\ variant = "run" /\ pc = "continue"
  /\ \E bs \in RunButtonLists :
       \/ /\ RunContinueFound(bs)
          /\ pc' = "wait_fields"
          /\ UNCHANGED loginVars
       \/ LoginFail
  /\ UNCHANGED <<variant, env, browser, closeCalls, pollVars, netVars, fileVars,
                 exitCode, searchVars, timeVars,
                 policyVars, frameVars>>

RunWaitFields ==
  /\ variant = "run" /\ pc = "wait_fields"
  /\ \/ /\ pc' = "username"
        /\ UNCHANGED loginVars
     \/ LoginFail
  /\ UNCHANGED <<variant, env, browser, closeCalls, pollVars, netVars, fileVars,
                 exitCode, searchVars, timeVars,
                 policyVars, frameVars>>

RunEnterUsername ==
  /\ variant = "run" /\ pc = "username"
  /\ IF "USERNAME" \in env
     THEN /\ entered' = entered \cup {"username"}
          /\ pc' = "password"
          /\ UNCHANGED <<attempts, failures, loginState, submitClicks, confirmed>>
     ELSE LoginFail
  /\ UNCHANGED <<variant, env, browser, closeCalls, pollVars, netVars, fileVars,
                 exitCode, searchVars, timeVars,
                 policyVars, frameVars>>

RunEnterPassword ==
  /\ variant = "run" /\ pc = "password"
  /\ IF "PASSWORD" \in env
     THEN /\ entered' = entered \cup {"password"}
          /\ loginState' = "CredentialsEntered"
          /\ pc' = "submit"
          /\ UNCHANGED <<attempts, failures, submitClicks, confirmed>>
     ELSE LoginFail
  /\ UNCHANGED <<variant, env, browser, closeCalls, pollVars, netVars, fileVars,
                 exitCode, searchVars, timeVars,
                 policyVars, frameVars>>

\* page.click(...) of Promise.all([waitForNavigation, page.click]): throws when
\* the selector finds no element
RunClickSubmit ==
  /\ variant = "run" /\ pc = "submit"
  /\ \/ /\ submitClicks' = submitClicks + 1
        /\ loginState' = "Submitted"
        /\ pc' = "confirm"
        /\ UNCHANGED <<attempts, failures, entered, confirmed>>
     \/ LoginFail
  /\ UNCHANGED <<variant, env, browser, closeCalls, pollVars, netVars, fileVars,
                 exitCode, searchVars, timeVars,
                 policyVars, frameVars>>

\* waitForNavigation of the same Promise.all
RunConfirmNav ==
  /\ variant = "run" /\ pc = "confirm"
  /\ \/ /\ loginState' = "NavigationConfirmed"
        /\ pc' = "dashboard"
        /\ UNCHANGED <<attempts, failures, entered, submitClicks, confirmed>>
     \/ LoginFail
  /\ UNCHANGED <<variant, env, browser, closeCalls, pollVars, netVars, fileVars,
                 exitCode, searchVars, timeVars,
                 policyVars, frameVars>>

\* waitForFunction(href includes "#")
RunDashboard ==
  /\ variant = "run" /\ pc = "dashboard"
  /\ \/ /\ loginState' = "DashboardConfirmed"
        /\ confirmed' = TRUE
        /\ pc' = "goto_analytics"
        /\ UNCHANGED <<attempts, failures, entered, submitClicks>>
     \/ LoginFail
  /\ UNCHANGED <<variant, env, browser, closeCalls, pollVars, netVars, fileVars,
                 exitCode, searchVars, timeVars,
                 policyVars, frameVars>>

RunGotoAnalytics ==
  /\ variant = "run" /\ pc = "goto_analytics"
  /\ pc' \in {"attach", OnThrow}
  /\ UNCHANGED <<variant, env, browser, closeCalls, loginVars, pollVars, netVars,
                 fileVars, exitCode, searchVars, timeVars,
                 policyVars, frameVars>>

RunAttach ==
  /\ variant = "run" /\ pc = "attach"
  /\ listeners' = listeners \cup {"run.request"}
  /\ captured' = <<>>
  /\ pc' = "window"
  /\ UNCHANGED <<variant, env, browser, closeCalls, loginVars, pollVars, observed,
                 pending, fileVars, exitCode, searchVars, timeVars,
                 policyVars, frameVars>>

RunOnRequest == SyncHandler("run.request", [u \in UrlNames |-> RunFilter(u)])

\* (mutation) the wait also ends as soon as something was captured
RunWindow_EarlyStop ==
  /\ variant = "run" /\ pc = "window"
  /\ elapsed = WindowTicks \/ captured # <<>>
  /\ pc' = "persist"
  /\ UNCHANGED <<variant, env, browser, closeCalls, loginVars, pollVars, netVars,
                 fileVars, exitCode, searchVars, timeVars,
                 policyVars, frameVars>>

RunWindow ==
  /\ variant = "run" /\ pc = "window"
  /\ elapsed = WindowTicks
  /\ pc' = "persist"
  /\ UNCHANGED <<variant, env, browser, closeCalls, loginVars, pollVars, netVars,
                 fileVars, exitCode, searchVars, timeVars,
                 policyVars, frameVars>>

\* if (captured.length === 0) log; else writeFileSync
RunPersist ==
  /\ variant = "run" /\ pc = "persist"
  /\ \/ /\ captured = <<>>
        /\ notice' = [msg |-> "empty", count |-> 0]
        /\ pc' = "finally"
        /\ UNCHANGED <<writes, artifact>>
     \/ /\ captured # <<>>
        /\ artifact' = WriteFile(artifact, Serialize(captured))
        /\ writes' = writes + 1
        /\ notice' = [msg |-> "saved", count |-> Len(captured)]
        /\ pc' = "finally"
     \/ /\ captured # <<>>
        /\ pc' = OnThrow
        /\ UNCHANGED fileVars
  /\ UNCHANGED <<variant, env, browser, closeCalls, loginVars, pollVars, netVars,
                 exitCode, searchVars, timeVars,
                 policyVars, frameVars>>

RunCatch ==
  /\ variant = "run" /\ pc = "catch"
  /\ pc' = "finally"
  /\ UNCHANGED <<variant, env, browser, closeCalls, loginVars, pollVars, netVars,
                 fileVars, exitCode, searchVars, timeVars,
                 policyVars, frameVars>>

RunFinally ==
  /\ variant = "run" /\ pc = "finally"
  /\ closeCalls' = closeCalls + 1
  /\ browser' = "closed"
  /\ exitCode' = "exit0"
  /\ pc' = "returned"
  /\ UNCHANGED <<variant, env, loginVars, pollVars, netVars, fileVars,
                 searchVars, timeVars,
                 policyVars, frameVars>>

-----------------------------------------------------------------------------
(* The deepCapture scripts: no try/catch around the body; a rejection is     *)
(* logged by deepCapture().catch.  Their login steps are the same code.      *)

DeepVariants == {"cookie", "cdp", "kw", "target", "iframe"}

\* listeners registered right after launch, before the login page is opened
LaunchListeners ==
  CASE variant = "cookie" -> {"cookie.login"}
    [] variant = "cdp"    -> {"cdp.request", "cdp.response"}
    [] OTHER              -> {}

\* the regular expression the Log In click tests innerText with
DeepLoginMatches(label) ==
  LET t == ToLowerCase(label)
      logSpIn == Includes(t, <<"l","o","g"," ","i","n">>)
      login   == Includes(t, <<"l","o","g","i","n">>)
  IN CASE variant = "cookie" -> logSpIn
       [] OTHER              -> logSpIn \/ login

DeepLoginFound(bs) == \E i \in 1..Len(bs) : DeepLoginMatches(bs[i].label)

DeepLaunch ==
  /\ variant \in DeepVariants /\ pc = "launch"
  /\ browser' = "open"
  /\ listeners' = LaunchListeners
  /\ pc' = "goto_login"
  /\ UNCHANGED <<variant, env, closeCalls, loginVars, pollVars, observed, pending,
                 captured, fileVars, exitCode, searchVars, timeVars,
                 policyVars, frameVars>>

DeepGotoLogin ==
  /\ variant \in DeepVariants /\ pc = "goto_login"
  /\ \/ /\ attempts' = attempts + 1
        /\ loginState' = "Start"
        /\ pc' = "company"
        /\ UNCHANGED <<failures, entered, submitClicks, confirmed>>
     \/ /\ attempts' = attempts + 1
        /\ loginState' = "Failed"
        /\ failures' = failures + 1
        /\ pc' = OnThrow
        /\ UNCHANGED <<entered, submitClicks, confirmed>>
  /\ UNCHANGED <<variant, env, browser, closeCalls, pollVars, netVars, fileVars,
                 exitCode, searchVars, timeVars,
                 policyVars, frameVars>>

\* waitForSelector, then page.type(selector, COMPANY_ID): typing an undefined
\* text throws
DeepEnterCompany ==
  /\ variant \in DeepVariants /\ pc = "company"
  /\ \/ /\ "COMPANY_ID" \in env
        /\ entered' = entered \cup {"entity"}
        /\ loginState' = "EntityEntered"
        /\ pc' = "continue"
        /\ UNCHANGED <<attempts, failures, submitClicks, confirmed>>
     \/ LoginFail
  /\ UNCHANGED <<variant, env, browser, closeCalls, pollVars, netVars, fileVars,
                 exitCode, searchVars, timeVars,
                 policyVars, frameVars>>

\* page.evaluate(() => { ...; if (btn) btn.click(); }): never throws
DeepClickContinue ==
  /\ variant \in DeepVariants /\ pc = "continue"
  /\ pc' = "wait_fields"
  /\ UNCHANGED <<variant, env, browser, closeCalls, loginVars, pollVars, netVars,
                 fileVars, exitCode, searchVars, timeVars,
                 policyVars, frameVars>>

DeepWaitFields ==
  /\ variant \in DeepVariants /\ pc = "wait_fields"
  /\ \/ /\ pc' = "username"
        /\ UNCHANGED loginVars
     \/ LoginFail
  /\ UNCHANGED <<variant, env, browser, closeCalls, pollVars, netVars, fileVars,
                 exitCode, searchVars, timeVars,
                 policyVars, frameVars>>

DeepEnterUsername ==
  /\ variant \in DeepVariants /\ pc = "username"
  /\ IF "USERNAME" \in env
     THEN /\ entered' = entered \cup {"username"}
          /\ pc' = "password"
          /\ UNCHANGED <<attempts, failures, loginState, submitClicks, confirmed>>
     ELSE LoginFail
  /\ UNCHANGED <<variant, env, browser, closeCalls, pollVars, netVars, fileVars,
                 exitCode, searchVars, timeVars,
                 policyVars, frameVars>>

DeepEnterPassword ==
  /\ variant \in DeepVariants /\ pc = "password"
  /\ IF "PASSWORD" \in env
     THEN /\ entered' = entered \cup {"password"}
          /\ loginState' = "CredentialsEntered"
          /\ pc' = "submit"
          /\ UNCHANGED <<attempts, failures, submitClicks, confirmed>>
     ELSE LoginFail
  /\ UNCHANGED <<variant, env, browser, closeCalls, pollVars, netVars, fileVars,
                 exitCode, searchVars, timeVars,
                 policyVars, frameVars>>

\* page.evaluate(() => { find the Log In button; if (btn) btn.click(); })
DeepClickLogin ==
  /\ variant \in DeepVariants /\ pc = "submit"
  /\ \E bs \in ButtonLists :
       submitClicks' = submitClicks + (IF DeepLoginFound(bs) THEN 1 ELSE 0)
  /\ loginState' = "Submitted"
  /\ pc' = "confirm"
  /\ UNCHANGED <<variant, env, browser, closeCalls, attempts, failures, entered,
                 confirmed, pollVars, netVars, fileVars, exitCode, searchVars, timeVars,
                 policyVars, frameVars>>

\* cookie and targeted variants: waitForFunction(href.includes("#/"), 60 s)
\* kw variant: waitForFunction(dashboard keywords, 120 s); a timeout throws, so
\* the else-branch that closes the browser is never taken
DeepConfirm ==
  /\ variant \in {"cookie", "target", "kw", "iframe"} /\ pc = "confirm"
  /\ \/ /\ loginState' = "DashboardConfirmed"
        /\ confirmed' = TRUE
        /\ pc' = CASE variant = "target" -> "poll"
                   [] variant = "iframe" -> "scan"
                   [] OTHER              -> "cookies"
        /\ UNCHANGED <<attempts, failures, entered, submitClicks>>
     \/ LoginFail
  /\ UNCHANGED <<variant, env, browser, closeCalls, pollVars, netVars, fileVars,
                 exitCode, searchVars, timeVars,
                 policyVars, frameVars>>

\* part_001: try { waitForNavigation } catch { warn, continue }
CdpConfirm ==
  /\ variant = "cdp" /\ pc = "confirm"
  /\ \/ /\ loginState' = "NavigationConfirmed"
        /\ confirmed' = TRUE
     \/ UNCHANGED <<loginState, confirmed>>
  /\ pc' = "goto_analytics"
  /\ UNCHANGED <<variant, env, browser, closeCalls, attempts, failures, entered,
                 submitClicks, pollVars, netVars, fileVars, exitCode,
                 searchVars, timeVars,
                 policyVars, frameVars>>

\* page.cookies(), browser.newPage(), analyticsPage.setCookie(...)
DeepTransferCookies ==
  /\ variant \in {"cookie", "kw"} /\ pc = "cookies"
  /\ pc' = IF variant = "cookie" THEN "goto_analytics" ELSE "attach"
  /\ UNCHANGED <<variant, env, browser, closeCalls, loginVars, pollVars, netVars,
                 fileVars, exitCode, searchVars, timeVars,
                 policyVars, frameVars>>

\* goto(ANALYTICS_URL) outside any try: a failure rejects deepCapture()
DeepGotoAnalytics ==
  /\ variant \in {"cookie", "cdp"} /\ pc = "goto_analytics"
  /\ pc' \in {IF variant = "cookie" THEN "attach" ELSE "window", OnThrow}
  /\ UNCHANGED <<variant, env, browser, closeCalls, loginVars, pollVars, netVars,
                 fileVars, exitCode, searchVars, timeVars,
                 policyVars, frameVars>>

CookieAttach ==
  /\ variant = "cookie" /\ pc = "attach"
  /\ listeners' = listeners \cup {"cookie.analytics"}
  /\ pc' = "window"
  /\ UNCHANGED <<variant, env, browser, closeCalls, loginVars, pollVars, observed,
                 pending, captured, fileVars, exitCode, searchVars, timeVars,
                 policyVars, frameVars>>

KwAttach ==
  /\ variant = "kw" /\ pc = "attach"
  /\ listeners' = listeners \cup {"kw.request"}
  /\ captured' = <<>>
  /\ pc' = "goto_analytics"
  /\ UNCHANGED <<variant, env, browser, closeCalls, loginVars, pollVars, observed,
                 pending, fileVars, exitCode, searchVars, timeVars,
                 policyVars, frameVars>>

\* part_003: goto inside try/catch: a load failure is logged, the run goes on
KwGotoAnalytics ==
  /\ variant = "kw" /\ pc = "goto_analytics"
  /\ pc' = "window"
  /\ UNCHANGED <<variant, env, browser, closeCalls, loginVars, pollVars, netVars,
                 fileVars, exitCode, searchVars, timeVars,
                 policyVars, frameVars>>

CookieOnRequest ==
  \E lst \in {"cookie.login", "cookie.analytics"} : SyncHandler(lst, [u \in UrlNames |-> CdpFilter(u)])

CdpOnRequest == SyncHandler("cdp.request", [u \in UrlNames |-> CdpFilter(u)])

CdpOnResponse == SyncHandler("cdp.response", [u \in UrlNames |-> CdpFilter(u)])

KwOnRequest == SyncHandler("kw.request", [u \in UrlNames |-> KwFilter(u)])

TargetOnRequest == SyncHandler("target.iframe", [u \in UrlNames |-> TargetFilter(u)])

-----------------------------------------------------------------------------
(* Targeted iframe variant: the polling loop, src/scraper.js 359-376 *)

PollMax == 20

IframeUrls == {"iframeA", "iframeB"}

\* (mutation) the loop has no break: a match is followed by the sleep
TargetPoll_NoBreak ==
  /\ variant = "target" /\ pc = "poll"
  /\ pollAttempts' = pollAttempts + 1
  /\ \E r \in IframeUrls \cup {"null"} :
       /\ iframeUrl' = r
       /\ pc' = "poll_delay"
  /\ UNCHANGED <<variant, env, browser, closeCalls, loginVars, discovery,
                 pollDelays, netVars, fileVars, exitCode, searchVars, timeVars,
                 policyVars, frameVars>>

\* one iteration up to the break: evaluate, if (iframeUrl) break
TargetPoll ==
  /\ variant = "target" /\ pc = "poll"
  /\ pollAttempts' = pollAttempts + 1
  /\ \E r \in IframeUrls \cup {"null"} :
       /\ iframeUrl' = r
       /\ pc' = IF r # "null" THEN "after_poll" ELSE "poll_delay"
  /\ UNCHANGED <<variant, env, browser, closeCalls, loginVars, discovery,
                 pollDelays, netVars, fileVars, exitCode, searchVars, timeVars,
                 policyVars, frameVars>>

\* (mutation) the loop condition never ends the loop
TargetPollDelay_NoLimit ==
  /\ variant = "target" /\ pc = "poll_delay"
  /\ pollDelays' = pollDelays + 1
  /\ pc' = "poll"
  /\ UNCHANGED <<variant, env, browser, closeCalls, loginVars, discovery,
                 pollAttempts, iframeUrl, netVars, fileVars, exitCode,
                 searchVars, timeVars,
                 policyVars, frameVars>>

\* the 3 s sleep that ends an unsuccessful iteration, then i++ and i < 20
TargetPollDelay ==
  /\ variant = "target" /\ pc = "poll_delay"
  /\ pollDelays' = pollDelays + 1
  /\ pc' = IF pollAttempts < PollMax THEN "poll" ELSE "after_poll"
  /\ UNCHANGED <<variant, env, browser, closeCalls, loginVars, discovery,
                 pollAttempts, iframeUrl, netVars, fileVars, exitCode,
                 searchVars, timeVars,
                 policyVars, frameVars>>

\* if (!iframeUrl) { log; await browser.close(); return; }
TargetNotFound ==
  /\ variant = "target" /\ pc = "after_poll"
  /\ iframeUrl = "null"
  /\ discovery' = "exhausted"
  /\ closeCalls' = closeCalls + 1
  /\ browser' = "closed"
  /\ exitCode' = "exit0"
  /\ pc' = "returned"
  /\ UNCHANGED <<variant, env, loginVars, pollAttempts, pollDelays, iframeUrl,
                 netVars, fileVars, searchVars, timeVars,
                 policyVars, frameVars>>

\* browser.newPage(), CDP session, Network.enable, client.on(...)
TargetAttach ==
  /\ variant = "target" /\ pc = "after_poll"
  /\ iframeUrl # "null"
  /\ discovery' = "found"
  /\ listeners' = listeners \cup {"target.iframe"}
  /\ captured' = <<>>
  /\ pc' = "goto_iframe"
  /\ UNCHANGED <<variant, env, browser, closeCalls, loginVars, pollAttempts,
                 pollDelays, iframeUrl, observed, pending, fileVars, exitCode,
                 searchVars, timeVars,
                 policyVars, frameVars>>

\* (mutation) the goto of the report page is not wrapped in try/catch
TargetGotoIframe_FailureAborts ==
  /\ variant = "target" /\ pc = "goto_iframe"
  /\ \/ /\ pc' = "window"
        /\ UNCHANGED notice
     \/ /\ notice' = [msg |-> "load_issue", count |-> 0]
        /\ pc' = OnThrow
  /\ UNCHANGED <<variant, env, browser, closeCalls, loginVars, pollVars, netVars,
                 writes, artifact, exitCode, searchVars, timeVars,
                 policyVars, frameVars>>

\* try { goto(iframeUrl); 45 s wait } catch { warn "Power BI page load issue" }:
\* a load failure skips the wait
TargetGotoIframe ==
  /\ variant = "target" /\ pc = "goto_iframe"
  /\ \/ /\ pc' = "window"
        /\ UNCHANGED notice
     \/ /\ notice' = [msg |-> "load_issue", count |-> 0]
        /\ pc' = "persist"
  /\ UNCHANGED <<variant, env, browser, closeCalls, loginVars, pollVars, netVars,
                 writes, artifact, exitCode, searchVars, timeVars,
                 policyVars, frameVars>>

-----------------------------------------------------------------------------
(* Per-iframe variant, src/unnamed/part_000 148-190: every Power BI iframe   *)
(* found on the dashboard is opened in a page of its own, watched and        *)
(* closed.  A CDP session belongs to its page's target: it delivers events   *)
(* only while that page is open.                                             *)

MaxFrames == 2

FrameListeners == <<"iframe.1", "iframe.2", "iframe.3">>

\* the iframe page a listener was attached to (0: not an iframe-page listener)
FrameOf(lst) ==
  IF \E k \in 1..Len(FrameListeners) : FrameListeners[k] = lst
  THEN CHOOSE k \in 1..Len(FrameListeners) : FrameListeners[k] = lst
  ELSE 0

\* waitForTimeout(10000); iframeUrls = evaluate(srcs containing app.powerbi.com)
FrameScan ==
  /\ variant = "iframe" /\ pc = "scan"
  /\ \E n \in 0..MaxFrames : \E us \in [1..n -> IframeUrls] :
       /\ iframeUrls' = us
       /\ frameIdx' = 1
       /\ pc' = IF n = 0 THEN "persist" ELSE "frame_open"
  /\ UNCHANGED <<variant, env, browser, closeCalls, loginVars, pollVars, netVars,
                 fileVars, exitCode, searchVars, timeVars, policyVars,
                 framePages>>

\* browser.newPage(), createCDPSession, Network.enable, client.on(...)
FrameOpen ==
  /\ variant = "iframe" /\ pc = "frame_open"
  /\ framePages' = Append(framePages, "open")
  /\ listeners' = listeners \cup {FrameListeners[frameIdx]}
  /\ pc' = "frame_watch"
  /\ UNCHANGED <<variant, env, browser, closeCalls, loginVars, pollVars, observed,
                 pending, captured, fileVars, exitCode, searchVars, timeVars,
                 policyVars, iframeUrls, frameIdx>>

\* Network.requestWillBeSent on the session of iframe page k
FrameOnRequest ==
  \E k \in 1..Len(framePages) :
    /\ framePages[k] = "open"
    /\ SyncHandler(FrameListeners[k], [u \in UrlNames |-> TargetFilter(u)])

\* (mutation) the goto of an iframe page is not wrapped in try/catch
FrameWatch_FailureAborts ==
  /\ variant = "iframe" /\ pc = "frame_watch"
  /\ \/ /\ pc' = "frame_close"
        /\ UNCHANGED notice
     \/ /\ notice' = [msg |-> "frame_failed", count |-> frameIdx]
        /\ pc' = OnThrow
  /\ UNCHANGED <<variant, env, browser, closeCalls, loginVars, pollVars, netVars,
                 writes, artifact, exitCode, searchVars, timeVars,
                 policyVars, frameVars>>

\* try { goto(url); 30 s wait } catch { warn "Failed to load iframe i" }
FrameWatch ==
  /\ variant = "iframe" /\ pc = "frame_watch"
  /\ \/ UNCHANGED notice
     \/ notice' = [msg |-> "frame_failed", count |-> frameIdx]
  /\ pc' = "frame_close"
  /\ UNCHANGED <<variant, env, browser, closeCalls, loginVars, pollVars, netVars,
                 writes, artifact, exitCode, searchVars, timeVars,
                 policyVars, frameVars>>

\* (mutation) the iteration ends without iframePage.close()
FrameClose_LeavesOpen ==
  /\ variant = "iframe" /\ pc = "frame_close"
  /\ frameIdx' = frameIdx + 1
  /\ pc' = IF frameIdx < Len(iframeUrls) THEN "frame_open" ELSE "persist"
  /\ UNCHANGED <<variant, env, browser, closeCalls, loginVars, pollVars, netVars,
                 fileVars, exitCode, searchVars, timeVars, policyVars,
                 iframeUrls, framePages>>

\* await iframePage.close(), then the next iteration or the end of the loop
FrameClose ==
  /\ variant = "iframe" /\ pc = "frame_close"
  /\ framePages' = [framePages EXCEPT ![frameIdx] = "closed"]
  /\ frameIdx' = frameIdx + 1
  /\ pc' = IF frameIdx < Len(iframeUrls) THEN "frame_open" ELSE "persist"
  /\ UNCHANGED <<variant, env, browser, closeCalls, loginVars, pollVars, netVars,
                 fileVars, exitCode, searchVars, timeVars, policyVars,
                 iframeUrls>>

-----------------------------------------------------------------------------
(* deepCapture scripts: monitoring window, persistence, close *)

DeepWindow ==
  /\ variant \in DeepVariants /\ pc = "window"
  /\ elapsed = WindowTicks
  /\ pc' = "persist"
  /\ UNCHANGED <<variant, env, browser, closeCalls, loginVars, pollVars, netVars,
                 fileVars, exitCode, searchVars, timeVars,
                 policyVars, frameVars>>

\* fs.writeFileSync("deep-capture.json", JSON.stringify(captured)): always written
DeepPersist ==
  /\ variant \in {"cookie", "cdp", "target", "iframe"} /\ pc = "persist"
  /\ \/ /\ artifact' = WriteFile(artifact, Serialize(captured))
        /\ writes' = writes + 1
        /\ notice' = [msg |-> "saved", count |-> Len(captured)]
        /\ pc' = "close"
     \/ /\ pc' = OnThrow
        /\ UNCHANGED fileVars
  /\ UNCHANGED <<variant, env, browser, closeCalls, loginVars, pollVars, netVars,
                 exitCode, searchVars, timeVars,
                 policyVars, frameVars>>

\* part_003: written only if (captured.length > 0), else a warning
KwPersist ==
  /\ variant = "kw" /\ pc = "persist"
  /\ \/ /\ captured = <<>>
        /\ notice' = [msg |-> "empty", count |-> 0]
        /\ pc' = "close"
        /\ UNCHANGED <<writes, artifact>>
     \/ /\ captured # <<>>
        /\ artifact' = WriteFile(artifact, Serialize(captured))
        /\ writes' = writes + 1
        /\ notice' = [msg |-> "saved", count |-> Len(captured)]
        /\ pc' = "close"
     \/ /\ captured # <<>>
        /\ pc' = OnThrow
        /\ UNCHANGED fileVars
  /\ UNCHANGED <<variant, env, browser, closeCalls, loginVars, pollVars, netVars,
                 exitCode, searchVars, timeVars,
                 policyVars, frameVars>>

DeepClose ==
  /\ variant \in DeepVariants /\ pc = "close"
  /\ closeCalls' = closeCalls + 1
  /\ browser' = "closed"
  /\ exitCode' = "exit0"
  /\ pc' = "returned"
  /\ UNCHANGED <<variant, env, loginVars, pollVars, netVars, fileVars,
                 searchVars, timeVars,
                 policyVars, frameVars>>

-----------------------------------------------------------------------------

Variants == {"main", "run"} \cup DeepVariants

Init ==
  /\ variant \in Variants
  /\ env \in SUBSET ConfigKeys
  /\ pc = "launch"
  /\ browser = "none"
  /\ closeCalls = 0
  /\ attempts = 0
  /\ failures = 0
  /\ loginState = "Start"
  /\ entered = {}
  /\ submitClicks = 0
  /\ confirmed = FALSE
  /\ discovery = "none"
  /\ pollAttempts = 0
  /\ pollDelays = 0
  /\ iframeUrl = "null"
  /\ listeners = {}
  /\ observed = <<>>
  /\ pending = {}
  /\ captured = <<>>
  /\ writes = 0
  /\ artifact = <<>>
  /\ exitCode = "running"
  /\ buttons = <<>>
  /\ clickLog = <<>>
  /\ notice = [msg |-> "none", count |-> 0]
  /\ elapsed = 0
  /\ mode = "headless"
  /\ cycles = 0
  /\ relaunches = 0
  /\ iframeUrls = <<>>
  /\ frameIdx = 0
  /\ framePages = <<>>

Next ==
  \/ MainConfigInvalid \/ MainLaunch \/ MainGotoLogin \/ MainEnterCompany \/ MainEnterUsername
  \/ MainEnterPassword \/ MainClickSubmit \/ MainConfirm \/ MainGotoAnalytics
  \/ TimerTick
  \/ FrameScan \/ FrameOpen \/ FrameOnRequest \/ FrameWatch \/ FrameClose
  \/ MainIframeWait \/ MainAttach \/ MainOnResponse \/ MainOnResponseBody
  \/ MainWindow \/ MainPersist \/ MainClose \/ MainCatch
  \/ RunLaunch \/ RunGotoLogin \/ RunEnterCompany \/ RunClickContinue
  \/ RunWaitFields \/ RunEnterUsername \/ RunEnterPassword \/ RunClickSubmit
  \/ RunConfirmNav \/ RunDashboard \/ RunGotoAnalytics \/ RunAttach
  \/ RunOnRequest \/ RunWindow \/ RunPersist \/ RunCatch \/ RunFinally
  \/ DeepLaunch \/ DeepGotoLogin \/ DeepEnterCompany \/ DeepClickContinue
  \/ DeepWaitFields \/ DeepEnterUsername \/ DeepEnterPassword \/ DeepClickLogin
  \/ DeepConfirm \/ CdpConfirm \/ DeepTransferCookies \/ DeepGotoAnalytics
  \/ CookieAttach \/ KwAttach \/ KwGotoAnalytics
  \/ CookieOnRequest \/ CdpOnRequest \/ CdpOnResponse \/ KwOnRequest
  \/ TargetOnRequest
  \/ TargetPoll \/ TargetPollDelay \/ TargetNotFound \/ TargetAttach
  \/ TargetGotoIframe
  \/ DeepWindow \/ DeepPersist \/ KwPersist \/ DeepClose

Spec == Init /\ [][Next]_vars

-----------------------------------------------------------------------------
(* The submit-control search alone: the main IIFE stands at the search with  *)
(* all three fields typed, on a page with any list of rendered buttons.      *)

InitSubmit ==
  /\ variant = "main"
  /\ pc = "submit"
  /\ browser = "open"
  /\ closeCalls = 0
  /\ attempts = 1
  /\ failures = 0
  /\ loginState = "CredentialsEntered"
  /\ entered = {"entity", "username", "password"}
  /\ submitClicks = 0
  /\ confirmed = FALSE
  /\ discovery = "none"
  /\ pollAttempts = 0
  /\ pollDelays = 0
  /\ iframeUrl = "null"
  /\ listeners = {}
  /\ observed = <<>>
  /\ pending = {}
  /\ captured = <<>>
  /\ writes = 0
  /\ artifact = <<>>
  /\ exitCode = "running"
  /\ buttons \in ButtonLists
  /\ clickLog = <<>>
  /\ env = ConfigKeys
  /\ notice = [msg |-> "none", count |-> 0]
  /\ elapsed = 0
  /\ mode = "headless"
  /\ cycles = 0
  /\ relaunches = 0
  /\ iframeUrls = <<>>
  /\ frameIdx = 0
  /\ framePages = <<>>

NextSubmit == MainSubmitSearch \/ MainConfirm \/ MainCatch

SpecSubmit == InitSubmit /\ [][NextSubmit]_vars

-----------------------------------------------------------------------------
(* The cyclic capture policy with escalation.  No script under src/ holds it; *)
(* the driver below follows sections 4.1, 4.2, 4.5 and 4.6 of the             *)
(* specification: launch in a mode, log in within the retry budget, attach    *)
(* the listener, wait in cycles, escalate once, persist, close.               *)

CycleMax == 10

LoginBudget == 3

keepRun == <<variant, env, pollVars, pending, searchVars, timeVars, frameVars,
             entered, submitClicks>>

CycLaunch ==
  /\ variant = "cyclic" /\ pc = "launch"
  /\ browser' = "open"
  /\ pc' = "login"
  /\ UNCHANGED <<keepRun, closeCalls, attempts, failures, loginState, confirmed,
                 listeners, observed, captured, fileVars, exitCode, policyVars>>

\* one attempt of the login sequencer; LoginFailed once the budget is used up
CycLogin ==
  /\ variant = "cyclic" /\ pc = "login"
  /\ attempts' = attempts + 1
  /\ \/ /\ loginState' = "DashboardConfirmed"
        /\ confirmed' = TRUE
        /\ pc' = "attach"
        /\ UNCHANGED failures
     \/ /\ failures' = failures + 1
        /\ loginState' = IF attempts + 1 < LoginBudget THEN "Start" ELSE "Failed"
        /\ pc' = IF attempts + 1 < LoginBudget THEN "login" ELSE "login_failed"
        /\ UNCHANGED confirmed
  /\ UNCHANGED <<keepRun, browser, closeCalls, listeners, observed, captured,
                 fileVars, exitCode, policyVars>>

\* LoginFailed: close the session, exit non-zero
CycLoginFailed ==
  /\ variant = "cyclic" /\ pc = "login_failed"
  /\ browser' = "closed"
  /\ closeCalls' = closeCalls + 1
  /\ exitCode' = "exit1"
  /\ pc' = "exited"
  /\ UNCHANGED <<keepRun, attempts, failures, loginState, confirmed, listeners,
                 observed, captured, fileVars, policyVars>>

CycAttach ==
  /\ variant = "cyclic" /\ pc = "attach"
  /\ listeners' = {"cyclic.listener"}
  /\ cycles' = 0
  /\ pc' = "cycle"
  /\ UNCHANGED <<keepRun, browser, closeCalls, attempts, failures, loginState,
                 confirmed, observed, captured, fileVars, exitCode, mode,
                 relaunches>>

CycOnEvent == SyncHandler("cyclic.listener", [u \in UrlNames |-> MainFilter(u)])

\* (mutation) the loop has no early exit: it always runs all the cycles
CycCycle_NoEarlyExit ==
  /\ variant = "cyclic" /\ pc = "cycle"
  /\ cycles' = cycles + 1
  /\ pc' = IF cycles + 1 < CycleMax THEN "cycle"
           ELSE IF captured = <<>> /\ mode = "headless" THEN "teardown"
           ELSE "persist"
  /\ UNCHANGED <<keepRun, browser, closeCalls, attempts, failures, loginState,
                 confirmed, listeners, observed, captured, fileVars, exitCode,
                 mode, relaunches>>

\* (mutation) the escalation does not look at the mode of the launch
CycCycle_EscalatesAgain ==
  /\ variant = "cyclic" /\ pc = "cycle"
  /\ cycles' = cycles + 1
  /\ pc' = IF captured # <<>> THEN "persist"
           ELSE IF cycles + 1 < CycleMax THEN "cycle"
           ELSE "teardown"
  /\ UNCHANGED <<keepRun, browser, closeCalls, attempts, failures, loginState,
                 confirmed, listeners, observed, captured, fileVars, exitCode,
                 mode, relaunches>>

\* one cycle: the fixed delay, then the test of the buffer at its end
CycCycle ==
  /\ variant = "cyclic" /\ pc = "cycle"
  /\ cycles' = cycles + 1
  /\ pc' = IF captured # <<>> THEN "persist"
           ELSE IF cycles + 1 < CycleMax THEN "cycle"
           ELSE IF mode = "headless" THEN "teardown"
           ELSE "persist"
  /\ UNCHANGED <<keepRun, browser, closeCalls, attempts, failures, loginState,
                 confirmed, listeners, observed, captured, fileVars, exitCode,
                 mode, relaunches>>

\* escalation: tear the session down ...
CycTeardown ==
  /\ variant = "cyclic" /\ pc = "teardown"
  /\ browser' = "closed"
  /\ closeCalls' = closeCalls + 1
  /\ listeners' = {}
  /\ pc' = "relaunch"
  /\ UNCHANGED <<keepRun, attempts, failures, loginState, confirmed, observed,
                 captured, fileVars, exitCode, policyVars>>

\* ... and relaunch the entire run in headful mode
CycRelaunch ==
  /\ variant = "cyclic" /\ pc = "relaunch"
  /\ mode' = "headful"
  /\ relaunches' = relaunches + 1
  /\ cycles' = 0
  /\ browser' = "open"
  /\ attempts' = 0
  /\ failures' = 0
  /\ loginState' = "Start"
  /\ confirmed' = FALSE
  /\ pc' = "login"
  /\ UNCHANGED <<keepRun, closeCalls, listeners, observed, captured, fileVars,
                 exitCode>>

\* persist(buffer); an empty buffer is reported as CaptureEmpty
CycPersist ==
  /\ variant = "cyclic" /\ pc = "persist"
  /\ artifact' = WriteFile(artifact, Serialize(captured))
  /\ writes' = writes + 1
  /\ notice' = [msg |-> IF captured = <<>> THEN "empty" ELSE "saved",
                count |-> Len(captured)]
  /\ pc' = "close"
  /\ UNCHANGED <<keepRun, browser, closeCalls, attempts, failures, loginState,
                 confirmed, listeners, observed, captured, exitCode, policyVars>>

CycClose ==
  /\ variant = "cyclic" /\ pc = "close"
  /\ browser' = "closed"
  /\ closeCalls' = closeCalls + 1
  /\ exitCode' = "exit0"
  /\ pc' = "returned"
  /\ UNCHANGED <<keepRun, attempts, failures, loginState, confirmed, listeners,
                 observed, captured, fileVars, policyVars>>

InitCyclic ==
  /\ variant = "cyclic"
  /\ env = ConfigKeys
  /\ pc = "launch"
  /\ browser = "none"
  /\ closeCalls = 0
  /\ attempts = 0
  /\ failures = 0
  /\ loginState = "Start"
  /\ entered = {}
  /\ submitClicks = 0
  /\ confirmed = FALSE
  /\ discovery = "none"
  /\ pollAttempts = 0
  /\ pollDelays = 0
  /\ iframeUrl = "null"
  /\ listeners = {}
  /\ observed = <<>>
  /\ pending = {}
  /\ captured = <<>>
  /\ writes = 0
  /\ artifact = <<>>
  /\ exitCode = "running"
  /\ buttons = <<>>
  /\ clickLog = <<>>
  /\ notice = [msg |-> "none", count |-> 0]
  /\ elapsed = 0
  /\ mode \in {"headless", "headful"}
  /\ cycles = 0
  /\ relaunches = 0
  /\ iframeUrls = <<>>
  /\ frameIdx = 0
  /\ framePages = <<>>

NextCyclic ==
  \/ CycLaunch \/ CycLogin \/ CycLoginFailed \/ CycAttach \/ CycOnEvent
  \/ CycCycle \/ CycTeardown \/ CycRelaunch \/ CycPersist \/ CycClose

SpecCyclic == InitCyclic /\ [][NextCyclic]_vars

-----------------------------------------------------------------------------
(* Properties *)

Terminal == pc \in {"returned", "exited", "rejected"}

AllFields == {"entity", "username", "password"}

\* positions after the login phase
PastLogin ==
  pc \in {"goto_analytics", "cookies", "iframe_wait", "attach", "window",
          "persist", "close", "poll", "poll_delay", "after_poll", "goto_iframe"}

C2_ClosedAtEveryEnd ==
  (variant \in {"cdp", "cookie", "kw"} /\ Terminal) => browser = "closed"

\* C3: the login flow of the main IIFE has a budget of 3 attempts: LoginFailed
\* is surfaced only after exactly 3 attempts, and a confirmed login after k < 3
\* failures used exactly k + 1 attempts.
C3_RetryBudget ==
  variant = "main" =>
    /\ (pc \in {"catch", "exited"} /\ loginState = "Failed") =>
         (attempts = 3 /\ failures = 3)
    /\ loginState \in {"NavigationConfirmed", "DashboardConfirmed"} =>
         (failures < 3 /\ attempts = failures + 1)

Rank(st) ==
  CASE st = "Start" -> 0
    [] st = "EntityEntered" -> 1
    [] st = "CredentialsEntered" -> 2
    [] st = "Submitted" -> 3
    [] st = "NavigationConfirmed" -> 4
    [] st = "DashboardConfirmed" -> 5
    [] OTHER -> 6

\* the login steps of the main IIFE and of runScraper that wait for the page
LoginWaits ==
  IF variant = "main"
  THEN {"goto_login", "company", "username", "password", "submit", "confirm"}
  ELSE {"goto_login", "company", "continue", "wait_fields", "submit",
        "confirm", "dashboard"}

C4_StateInv ==
  variant \in {"main", "run"} =>
    /\ submitClicks > 0 => entered = AllFields
    /\ loginState \in {"Submitted", "NavigationConfirmed", "DashboardConfirmed"}
         => (entered = AllFields /\ submitClicks = 1)
    /\ pc \in LoginWaits => ENABLED (Next /\ loginState' = "Failed")

C4_Step ==
  (variant \in {"main", "run"} /\ loginState' # loginState) =>
    /\ loginState # "Failed"
    /\ loginState' = "Failed" \/ Rank(loginState') = Rank(loginState) + 1

\* C4: in the main IIFE and in runScraper the login state only moves forward,
\* one state at a time, in the order Start, EntityEntered, CredentialsEntered,
\* Submitted, NavigationConfirmed, DashboardConfirmed; the submit control is
\* clicked only once entity id, username and password are all entered; the
\* only other transition is to Failed, which every waiting login step can take.
C4_ForwardOnly == [](C4_StateInv) /\ [][C4_Step]_vars

\* a login attempt that failed after the submit click (from Submitted)
C4_Witness ==
  /\ variant = "main" /\ loginState = "Failed"
  /\ submitClicks = 1 /\ entered = AllFields

\* the label patterns as the specification names them
ClaimLabelMatches(label) ==
  \/ Includes(label, <<"c","o","n","t","i","n","u","e">>)
  \/ Includes(label, <<"l","o","g"," ","i","n">>)
  \/ Includes(label, <<"s","i","g","n"," ","i","n">>)

\* first labelled match, else first submit-type button, else no click
ClaimClicks(bs) ==
  LET lab == {i \in 1..Len(bs) : ClaimLabelMatches(ToLowerCase(bs[i].label))}
      sub == {i \in 1..Len(bs) : bs[i].type = "submit"}
      First(S) == CHOOSE i \in S : \A j \in S : i <= j
  IN IF lab # {} THEN <<First(lab)>>
     ELSE IF sub # {} THEN <<First(sub)>>
     ELSE <<>>

\* C5: once the search has run, exactly the first button whose label matches
\* "continue", "log in" or "sign in" (any case) was clicked; without one, the
\* first submit-type button; without either, nothing was clicked and the step
\* failed.
C5_SubmitSelection ==
  (variant = "main" /\ pc # "submit") =>
    /\ clickLog = ClaimClicks(buttons)
    /\ clickLog = <<>> <=> (loginState = "Failed" /\ submitClicks = 0)

\* C6: a run is past the login phase only if a navigation or dashboard wait
\* returned in time.
C6_NoProgressUnconfirmed ==
  (variant \in {"cdp", "main", "kw"} /\ PastLogin) => confirmed

\* C7: in the targeted iframe variant, once the page has reported a match the
\* loop is over: the match came on attempt pollAttempts, after one sleep per
\* earlier attempt, and neither a further attempt nor a further sleep follows.
C7_EarlyReturn ==
  (variant = "target" /\ iframeUrl # "null") =>
    /\ pc \notin {"poll", "poll_delay"}
    /\ pollAttempts <= PollMax
    /\ pollDelays = pollAttempts - 1

\* a match on the third attempt, seen when the run has ended
C7_Witness ==
  /\ variant = "target" /\ pc = "returned"
  /\ iframeUrl # "null" /\ pollAttempts = 3 /\ pollDelays = 2

\* C8: a run whose discovery found nothing still attaches a listener to the
\* primary page and, when it completes, has written the buffer.
C8_ExhaustionContinues ==
  (variant \in {"main", "target"} /\ discovery = "exhausted" /\ pc = "returned") =>
    /\ listeners # {}
    /\ writes = 1

\* events of the buffer, by observation number
CapturedNumbers == {captured[i].n : i \in 1..Len(captured)}

\* C9: every buffered event has a url matching the dedicated-capacity host or
\* the query-execution path, and once the monitoring window is over the buffer
\* holds each matching observation exactly once.
C9_ExactlyMatching ==
  variant \in {"main", "kw"} =>
    /\ \A i \in 1..Len(captured) : MainFilter(captured[i].url)
    /\ pc \in {"persist", "close", "returned"} =>
         /\ CapturedNumbers = {n \in 1..Len(observed) : MainFilter(observed[n].url)}
         /\ Len(captured) = Cardinality(CapturedNumbers)

\* C10: the buffer of the main IIFE lists events in the order they were observed.
C10_ObservationOrder ==
  variant = "main" =>
    \A i, j \in 1..Len(captured) : i < j => captured[i].n < captured[j].n

\* C11: with the login-page and analytics-page listeners of the cookie-transfer
\* script, or the request and response listeners of the CDP script, attached
\* together, the shared buffer holds every event that passed the listeners'
\* url test exactly once, with the url it was observed with and in observation
\* order (hence in each listener's own order): no append is lost or overwritten.
C11_ConcurrentAppends ==
  variant \in {"cookie", "cdp"} =>
    /\ CapturedNumbers = {n \in 1..Len(observed) : CdpFilter(observed[n].url)}
    /\ Len(captured) = Cardinality(CapturedNumbers)
    /\ \A i, j \in 1..Len(captured) : i < j => captured[i].n < captured[j].n
    /\ \A i \in 1..Len(captured) : captured[i].url = observed[captured[i].n].url

\* the analytics-page listener appended first, the login-page listener second
C11_Witness ==
  /\ variant = "cookie"
  /\ Len(captured) = 2
  /\ observed[captured[1].n].lst = "cookie.analytics"
  /\ observed[captured[2].n].lst = "cookie.login"

\* C12: every run of the main IIFE and of runScraper, whatever its outcome
\* (success, empty capture, login failure, an error after the listener was
\* attached), has written the buffer to the artifact exactly once when it ends.
C12_WrittenOncePerRun ==
  variant \in {"main", "run"} =>
    /\ writes <= 1
    /\ Terminal => writes = 1

\* C13: when the persistence step of the main IIFE, runScraper or the
\* dashboard-keyword script finds the buffer empty, the message it logs is the
\* empty-capture diagnostic and not the success message, and the run then
\* completes normally: browser closed, exit status 0.
C13_EmptyDiagnostic ==
  (variant \in {"kw", "run", "main"} /\ notice.msg \in {"saved", "empty"}
     /\ notice.count = 0) =>
    /\ notice.msg = "empty"
    /\ pc = "returned" => (browser = "closed" /\ exitCode = "exit0")

C14_WindowInv ==
  (variant \in {"main", "run"} /\ pc = "window") =>
    /\ elapsed < WindowTicks => ~ENABLED (Next /\ pc' # "window")
    /\ elapsed = WindowTicks =>
         (ENABLED (Next /\ pc' = "persist") /\ ~ENABLED TimerTick)

C14_WindowStep ==
  (variant \in {"main", "run"} /\ pc = "window" /\ pc' # "window") =>
    (pc' = "persist" /\ elapsed = WindowTicks /\ captured' = captured)

C15_CycleInv ==
  variant = "cyclic" => cycles <= CycleMax

C15_CycleStep ==
  (variant = "cyclic" /\ pc = "cycle" /\ cycles' = cycles + 1) =>
    /\ cycles < CycleMax
    /\ pc' = "cycle" => captured = <<>>
    /\ captured # <<>> => pc' = "persist"

\* C15: the cyclic wait never counts more than CycleMax cycles; a further cycle
\* is started only when the buffer was empty at the end of the previous one, and
\* a cycle that ends with a non-empty buffer is the last one.
C15_CyclicEarlyExit == [](C15_CycleInv) /\ [][C15_CycleStep]_vars

\* the loop was left at its second boundary, with an event in the buffer
C15_Witness ==
  /\ variant = "cyclic" /\ pc = "persist"
  /\ cycles = 2 /\ captured # <<>> /\ relaunches = 0

C16_EscalationInv ==
  variant = "cyclic" =>
    /\ relaunches <= 1
    /\ relaunches = 1 => mode = "headful"
    /\ (pc = "returned" /\ captured = <<>>) =>
         (exitCode = "exit0" /\ notice.msg = "empty" /\ mode = "headful")

C16_EscalationStep ==
  (variant = "cyclic" /\ relaunches' # relaunches) =>
    /\ mode = "headless" /\ mode' = "headful"
    /\ relaunches = 0 /\ relaunches' = 1
    /\ cycles = CycleMax /\ browser = "closed" /\ listeners = {}

C16_DecisionStep ==
  (variant = "cyclic" /\ pc' = "teardown" /\ pc # "teardown") =>
    (captured = <<>> /\ cycles' = CycleMax /\ mode = "headless" /\ relaunches = 0)

\* C16: the session is torn down for a relaunch only when a headless launch has
\* completed all its cycles with an empty buffer; the relaunch follows the
\* teardown, is headful and happens at most once; a headful run never
\* escalates; a run that ends with an empty buffer ends headful, reports the
\* empty capture and exits 0.
C16_EscalateOnce ==
  [](C16_EscalationInv) /\ [][C16_EscalationStep /\ C16_DecisionStep]_vars

\* the escalated run captured nothing either and the process exited 0
C16_Witness ==
  /\ variant = "cyclic" /\ pc = "returned"
  /\ relaunches = 1 /\ captured = <<>> /\ exitCode = "exit0"

\* C17: in the main IIFE, runScraper and the CDP script, a run that ended after
\* a failed login has exit status non-zero, never 0, and a run that completed
\* has exit status 0.
C17_ExitStatus ==
  variant \in {"main", "run", "cdp"} =>
    /\ (Terminal /\ loginState = "Failed") => exitCode = "exit1"
    /\ exitCode = "exit0" => loginState # "Failed"
    /\ (pc = "returned" /\ loginState # "Failed" /\ notice.msg # "none") =>
         exitCode = "exit0"

\* C18: when a required key is absent, the main IIFE and runScraper launch no
\* browser and start no login step, and the process has printed the
\* configuration message and exited non-zero as soon as it has moved at all.
C18_ConfigValidated ==
  (variant \in {"main", "run"} /\ env # ConfigKeys) =>
    /\ browser = "none"
    /\ attempts = 0
    /\ pc # "launch" => (exitCode = "exit1" /\ notice.msg = "config")

\* the artifact write threw: the only throw there is once the listener is attached
WriteFailed ==
  \/ /\ variant = "main" /\ "main.response" \in listeners
     /\ pc \in {"catch", "exited"}
  \/ /\ variant = "run" /\ "run.request" \in listeners
     /\ pc \in {"catch", "finally", "returned"} /\ writes = 0
     /\ notice.msg = "none"

\* C19: a run of the main IIFE or of runScraper whose artifact write failed has,
\* when it ends, closed the browser and exited with a non-zero status.
C19_WriteFailureFatal ==
  (WriteFailed /\ Terminal) => (browser = "closed" /\ exitCode = "exit1")

OpenFrames == {k \in 1..Len(framePages) : framePages[k] = "open"}

C20_FrameInv ==
  variant = "iframe" =>
    /\ Cardinality(OpenFrames) <= 1
    /\ pc = "frame_open" => OpenFrames = {}
    /\ pc \in {"persist", "close", "returned"} => OpenFrames = {}

C20_FrameStep ==
  (variant = "iframe" /\ observed' # observed) =>
    /\ browser = "open"
    /\ OpenFrames = {FrameOf(observed'[Len(observed')].lst)}

-----------------------------------------------------------------------------
(* The persistence step of the main script, run again on the same buffer *)

\* how many times the persistence step is run against the same file
MaxRuns == 2

\* what the output file holds before the first run: nothing, or an earlier result
StaleFiles == {<<>>, Serialize(<<[n |-> 1, url |-> "query"]>>)}

\* the events the window delivered, as sequences of at most MaxEvents
EventSeqs ==
  UNION {[1..k -> [lst : {"main.response"}, url : UrlNames]] : k \in 0..MaxEvents}

\* the buffer the response handler builds from the delivered events
RECURSIVE BufferOf(_, _)
BufferOf(obs, k) ==
  IF k > Len(obs) THEN <<>>
  ELSE IF MainFilter(obs[k].url)
       THEN <<[n |-> k, url |-> obs[k].url]>> \o BufferOf(obs, k + 1)
       ELSE BufferOf(obs, k + 1)

\* the script is started again and receives the same events
PersistRerun ==
  /\ variant = "main" /\ pc = "returned"
  /\ writes < MaxRuns
  /\ pc' = "persist"
  /\ browser' = "open"
  /\ closeCalls' = 0
  /\ exitCode' = "running"
  /\ UNCHANGED <<variant, env, loginVars, pollVars, netVars, fileVars,
                 searchVars, timeVars, policyVars, frameVars>>

InitPersist ==
  /\ variant = "main"
  /\ env = ConfigKeys
  /\ pc = "persist"
  /\ browser = "open"
  /\ closeCalls = 0
  /\ attempts = 1
  /\ failures = 0
  /\ loginState = "NavigationConfirmed"
  /\ entered = {"entity", "username", "password"}
  /\ submitClicks = 1
  /\ confirmed = TRUE
  /\ discovery = "none"
  /\ pollAttempts = 0
  /\ pollDelays = 0
  /\ iframeUrl = "null"
  /\ listeners = {"main.response"}
  /\ observed \in EventSeqs
  /\ pending = {}
  /\ captured = BufferOf(observed, 1)
  /\ writes = 0
  /\ artifact \in StaleFiles
  /\ exitCode = "running"
  /\ buttons = <<>>
  /\ clickLog = <<>>
  /\ notice = [msg |-> "none", count |-> 0]
  /\ elapsed = WindowTicks
  /\ mode = "headless"
  /\ cycles = 0
  /\ relaunches = 0
  /\ iframeUrls = <<>>
  /\ frameIdx = 0
  /\ framePages = <<>>

NextPersist == MainPersist \/ MainClose \/ MainCatch \/ PersistRerun

SpecPersist == InitPersist /\ [][NextPersist]_vars

\* C21: persisting is idempotent. Once the script has written its result, the
\* output file holds exactly the serialization of the buffer, whatever the file
\* held before, and writing the same buffer a second time leaves the file as
\* the first write left it.
C21_FileIsSerialization == writes >= 1 => artifact = Serialize(captured)

C21_RewriteStep ==
  (writes >= 1 /\ writes' = writes + 1) => artifact' = artifact

CredentialsIn(file) == {file[i] : i \in 1..Len(file)} \cap CredentialValues

\* C22: the credentials are never persisted. In the cookie-transfer variant,
\* whose listener is attached before the login, and in runScraper, no
\* credential value occurs in the artifact and no buffered record is the login
\* request, so the artifact is the same whatever the credential values are.
C22_NoCredentialPersisted ==
  variant \in {"cookie", "run"} =>
    /\ CredentialsIn(artifact) = {}
    /\ \A i \in 1..Len(captured) : CredentialsIn(BodyOf(captured[i].url)) = {}

\* the listener attached before the login saw the login request, and the
\* artifact was written with a record in it
C22_Witness ==
  /\ variant = "cookie" /\ writes = 1 /\ Len(artifact) > 2
  /\ \E n \in 1..Len(observed) :
       observed[n].lst = "cookie.login" /\ observed[n].url = "portal"

\* the listener that captures the analytics page's traffic
AnalyticsListener ==
  CASE variant = "main" -> "main.response"
    [] variant = "run"  -> "run.request"
    [] variant = "kw"   -> "kw.request"
    [] OTHER            -> "none"

\* C23: in the main script, runScraper and the keyword variant the analytics
\* listener is attached before the navigation to the analytics URL starts:
\* whenever the script performs that navigation, the listener is already there.
C23_NavigationStep ==
  (variant \in {"main", "run", "kw"} /\ pc = "goto_analytics" /\ pc' # pc)
    => AnalyticsListener \in listeners

C23_AttachedBeforeNavigation == [][C23_NavigationStep]_vars

\* C24: in the main script no observed matching response is lost and none is
\* appended late: when the buffer is serialized no handler is still suspended
\* on a response body, and after the serialization the buffer does not grow.
C24_PersistStep ==
  variant = "main" =>
    /\ writes' > writes => pending = {}
    /\ writes >= 1 => captured' = captured

C24_NoEventLost == [][C24_PersistStep]_vars

\* C25: in the keyword variant a login whose dashboard is not detected in
\* time ends in the login-failed branch: the run returns with the browser
\* closed, and neither the cookie transfer nor the capture has run.
C25_LoginFailedBranch ==
  (variant = "kw" /\ loginState = "Failed" /\ "password" \in entered /\ Terminal) =>
    /\ pc = "returned"
    /\ browser = "closed"
    /\ listeners = {} /\ writes = 0

C26_LoopInv ==
  variant = "iframe" =>
    /\ writes <= 1
    /\ pc \in {"frame_open", "frame_watch", "frame_close"} =>
         /\ frameIdx \in 1..Len(iframeUrls)
         /\ Len(framePages) = IF pc = "frame_open" THEN frameIdx - 1 ELSE frameIdx
         /\ pc = "frame_watch" => FrameListeners[frameIdx] \in listeners
    /\ pc \in {"persist", "close", "returned"} =>
         /\ Len(framePages) = Len(iframeUrls)
         /\ OpenFrames = {}
    /\ pc \in {"close", "returned"} => writes = 1 /\ artifact = Serialize(captured)
    /\ pc = "returned" => browser = "closed"
    /\ pc = "rejected" =>
         \/ frameIdx = 0
         \/ Len(framePages) = Len(iframeUrls) /\ frameIdx = Len(iframeUrls) + 1

C26_LoadFailureStep ==
  (variant = "iframe" /\ pc = "frame_watch" /\ notice' # notice) =>
    pc' = "frame_close" /\ captured' = captured /\ browser' = "open"

\* C26: the per-iframe variant isolates load failures. Every discovered iframe
\* URL, in order, gets a page, a listener and a monitoring step and is closed;
\* a failed load of one iframe only produces a warning and the loop goes on;
\* the run is only ever abandoned before the loop or at the write; after the
\* loop (also with no iframe at all) the buffer is written once and the
\* browser is closed.
C26_FailureIsolation == [](C26_LoopInv) /\ [][C26_LoadFailureStep]_vars

\* the first iframe failed to load, and the second one has been opened, has its
\* listener, has delivered an event to the buffer and is about to be closed
C26_Witness ==
  /\ variant = "iframe" /\ pc = "frame_close" /\ frameIdx = 2
  /\ notice = [msg |-> "frame_failed", count |-> 1]
  /\ captured # <<>> /\ observed[captured[1].n].lst = "iframe.2"

C27_LoadInv ==
  (variant = "target" /\ discovery = "found") =>
    /\ notice.msg = "load_issue" => elapsed = 0 /\ pc \in {"persist", "rejected"}
    /\ pc \in {"persist", "close", "returned"} => elapsed \in {0, WindowTicks}
    /\ pc \in {"close", "returned"} => writes = 1
    /\ pc = "returned" => browser = "closed" /\ closeCalls = 1
    /\ pc = "rejected" => writes = 0

C27_LoadFailureStep ==
  (variant = "target" /\ pc = "goto_iframe" /\ notice' # notice) =>
    /\ pc' = "persist"
    /\ captured' = captured /\ browser' = "open" /\ elapsed' = 0

C27_WriteStep ==
  (variant = "target" /\ pc = "persist" /\ pc' # pc) =>
    \/ writes' = 1 /\ artifact' = Serialize(captured) /\ pc' = "close"
    \/ writes' = 0 /\ pc' = "rejected"

\* C27: in the targeted-iframe variant a failed or timed-out load of the
\* report page is not fatal. The failure only produces a warning and skips the
\* monitoring wait; the script goes on to write the events buffered so far and
\* then closes the browser.
C27_LoadFailureNonFatal ==
  [](C27_LoadInv) /\ [][C27_LoadFailureStep /\ C27_WriteStep]_vars

\* the load failed after an event had been buffered, the wait was skipped, the
\* event was written and the browser closed
C27_Witness ==
  /\ variant = "target" /\ pc = "returned" /\ discovery = "found"
  /\ elapsed = 0 /\ writes = 1 /\ browser = "closed"
  /\ captured # <<>> /\ artifact = Serialize(captured)

C28_PollInv ==
  variant = "target" =>
    /\ pollAttempts \in 0..PollMax
    /\ pc = "poll" => pollDelays = pollAttempts /\ pollAttempts < PollMax
    /\ pc = "poll_delay" => pollDelays = pollAttempts - 1 /\ iframeUrl = "null"
    /\ (pc = "after_poll" \/ discovery # "none") =>
         IF iframeUrl = "null"
         THEN pollAttempts = PollMax /\ pollDelays = PollMax
         ELSE pollAttempts \in 1..PollMax /\ pollDelays = pollAttempts - 1

C28_PollStep ==
  (variant = "target" /\ pc \in {"poll", "poll_delay"} /\ pc' # pc) =>
    /\ pollAttempts' + pollDelays' = pollAttempts + pollDelays + 1
    /\ pc' \in {"poll", "poll_delay", "after_poll"}

\* C28: the targeted polling loop makes at most PollMax attempts, sleeps once
\* after each unsuccessful attempt, and always ends: every step of the loop
\* advances the count of attempts and sleeps, which never exceeds 2 * PollMax,
\* and the loop is left either with a URL found on an attempt i <= PollMax or
\* with none after exactly PollMax attempts and as many sleeps.
C28_BoundedPolling == [](C28_PollInv) /\ [][C28_PollStep]_vars

\* the loop gave up after exactly PollMax attempts
C28_Witness ==
  /\ variant = "target" /\ discovery = "exhausted"
  /\ pollAttempts = PollMax /\ pollDelays = PollMax /\ iframeUrl = "null"

-----------------------------------------------------------------------------
(* The main script and runScraper under fair scheduling: an awaited          *)
(* operation settles or times out, and timers fire.  Network events are not  *)
(* obliged to happen.                                                        *)

\* the next statement of the script body, the passing of time included
ScriptStep ==
  \/ MainConfigInvalid \/ MainLaunch \/ MainGotoLogin \/ MainEnterCompany
  \/ MainEnterUsername \/ MainEnterPassword \/ MainClickSubmit \/ MainConfirm
  \/ MainGotoAnalytics \/ MainIframeWait \/ MainAttach \/ TimerTick
  \/ MainWindow \/ MainPersist \/ MainClose \/ MainCatch
  \/ RunLaunch \/ RunGotoLogin \/ RunEnterCompany \/ RunClickContinue
  \/ RunWaitFields \/ RunEnterUsername \/ RunEnterPassword \/ RunClickSubmit
  \/ RunConfirmNav \/ RunDashboard \/ RunGotoAnalytics \/ RunAttach
  \/ RunWindow \/ RunPersist \/ RunCatch \/ RunFinally

\* a listener's callback runs
HandlerStep == MainOnResponse \/ MainOnResponseBody \/ RunOnRequest

InitLive == Init /\ variant \in {"main", "run"}

NextLive == ScriptStep \/ HandlerStep

SpecLive == InitLive /\ [][NextLive]_vars /\ WF_vars(ScriptStep)

\* C29: every wait of the main script and of runScraper is bounded, so, given
\* that each awaited operation settles or times out, every run ends: the
\* process eventually has an exit status.
C29_Terminates == <>(exitCode # "running")

\* a run in which a bounded wait timed out has ended
C29_Witness ==
  /\ exitCode # "running" /\ loginState = "Failed"
  /\ pc \in {"returned", "exited"}

====
